---- MODULE Spec2Model ----
(***************************************************************************)
(* Model of assets/js/lib/portfolio-dual-view.js: the dual-view portfolio  *)
(* coordinator (carousel + grid), its 300ms transition timers, its         *)
(* animation-frame reveals, the URL hash and the 'portfolio:viewchange'    *)
(* notification.  The browser is the environment: it delivers clicks, key  *)
(* presses, hash navigations, timer callbacks and animation frames, one    *)
(* task at a time (single-threaded event loop).                            *)
(***************************************************************************)
EXTENDS Integers, Sequences, FiniteSets, TLC

\* ---------------------------------------------------------------- bounds
MaxSlides == 2        \* slides in the carousel markup: 0..MaxSlides
MaxRequests == 2      \* showCarousel/showGrid calls in one behaviour
MaxHashEvents == 1    \* hashchange events queued and not yet delivered

\* ------------------------------------------------------------- geometry
\* Every slide is as wide as the carousel viewport (one image at a time);
\* lengths are in half-slide units so that the viewport centre is integral.
SlideW == 2

\* --------------------------------------------------------- the variables
VARIABLES
    pc,            \* the script: "start", "waiting", "running", "inert", "returned", "threw"
    container,     \* markup: .portfolio-dual-container is present
    carousel,      \* markup: #portfolio-carousel is present
    grid,          \* markup: #portfolio-grid is present
    closeBtn,      \* markup: .portfolio-close-btn is present
    slides,        \* markup: one entry per .kg-image-card, TRUE when it holds an <img>
    currentView,   \* var currentView
    totalSlides,   \* var totalSlides
    isInitialLoad, \* var isInitialLoad
    listeners,     \* the event listeners bindEvents has added
    classList,     \* container.classList (the three classes the script touches)
    carouselAria,  \* carousel's aria-hidden attribute ("none" while absent)
    gridAria,      \* grid's aria-hidden attribute ("none" while absent)
    gridSizer,     \* the .portfolio-grid-sizer has been appended to the grid
    gridItems,     \* data-index attribute of each .portfolio-grid-item, in order
    scrollLeft,    \* horizontal scroll offset of the carousel
    gridScroll,    \* position (0-based) of the grid item last scrolled into view, -1 if none
    hash,          \* window.location.hash
    hashEvents,    \* hashchange events queued by the browser, not yet delivered
    timers,        \* pending setTimeout callbacks, oldest first
    rafs,          \* pending requestAnimationFrame callbacks, oldest first
    dispatched,    \* number of 'portfolio:viewchange' events dispatched so far
    reqCount,      \* number of showCarousel/showGrid calls so far
    last,          \* the task that ran last (history, for stating the claims)
    hist           \* the latest request and the latest Grid request (history)

markup == <<container, carousel, grid, closeBtn, slides>>
script == <<pc, currentView, totalSlides, isInitialLoad, listeners>>
dom    == <<classList, carouselAria, gridAria, gridSizer, gridItems, scrollLeft, gridScroll>>
env    == <<hash, hashEvents, timers, rafs, dispatched, reqCount>>
vars   == <<markup, script, dom, env, last, hist>>

\* ------------------------------------------------------ JavaScript values
Num(k)    == [type |-> "number", nan |-> FALSE, v |-> k]
NaN       == [type |-> "number", nan |-> TRUE, v |-> 0]
Undefined == [type |-> "undefined", nan |-> FALSE, v |-> 0]

MathMin(a, b) ==
    IF a.nan \/ b.nan THEN NaN ELSE IF a.v <= b.v THEN a ELSE b

MathMax(a, b) ==
    IF a.nan \/ b.nan THEN NaN ELSE IF a.v >= b.v THEN a ELSE b

Digits == <<"0", "1", "2", "3", "4", "5", "6", "7", "8", "9">>

IsDigit(c) == \E d \in 1..10 : Digits[d] = c

DigitVal(c) == (CHOOSE d \in 1..10 : Digits[d] = c) - 1

\* String(n) for an integer n >= 0, as a sequence of characters.
RECURSIVE IntToStr(_)
IntToStr(n) ==
    IF n < 10 THEN <<Digits[n + 1]>>
    ELSE Append(IntToStr(n \div 10), Digits[(n % 10) + 1])

RECURSIVE SkipSpace(_)
SkipSpace(s) ==
    IF s # <<>> /\ Head(s) = " " THEN SkipSpace(Tail(s)) ELSE s

\* The value of the longest prefix of digits of s, starting from acc.
RECURSIVE DigitPrefix(_, _)
DigitPrefix(s, acc) ==
    IF s # <<>> /\ IsDigit(Head(s))
    THEN DigitPrefix(Tail(s), 10 * acc + DigitVal(Head(s)))
    ELSE acc

\* parseInt(s, 10): leading white space, an optional sign, then digits up to
\* the first character that is not one; NaN when there is no digit.
ParseInt(s) ==
    LET t == SkipSpace(s)
        neg == t # <<>> /\ Head(t) = "-"
        u == IF t # <<>> /\ Head(t) \in {"-", "+"} THEN Tail(t) ELSE t
    IN  IF u = <<>> \/ ~IsDigit(Head(u)) THEN NaN
        ELSE Num(IF neg THEN 0 - DigitPrefix(u, 0) ELSE DigitPrefix(u, 0))

\* getAttribute of an absent attribute is null, and String(null) is "null".
NullAttr == <<"n", "u", "l", "l">>

\* ------------------------------------------------------------ the hash
Hashes == {"", "#grid", "#other"}

\* A pending transition: the closure of its setTimeout callback (kind, index),
\* and, kept for stating the claims, the argument showCarousel was called
\* with (raw), whether a hashchange or a user input made the request (via),
\* its number (id), and whether no timer and no animation-frame callback was
\* pending when it was made (quiet).
Timer(kind, index, raw, via, id, quiet) ==
    [kind |-> kind, index |-> index, raw |-> raw, via |-> via, id |-> id, quiet |-> quiet]

NoTimer == Timer("none", Undefined, Undefined, "none", 0, FALSE)

\* What a listener of 'portfolio:viewchange' gets: the detail, and the page
\* as it is when dispatchEvent runs.
ViewChange(view, index, classes, h) ==
    [view |-> view, index |-> index, seenClasses |-> classes, seenHash |-> h]

NoEvent == ViewChange("none", Undefined, {}, "")

\* The task that ran last: its timer (the one a handler set, or the one whose
\* callback ran), the event it dispatched, the hash and currentView it
\* started from, and whether it called history.pushState.
Task(act, timer, event, h, view) ==
    [act |-> act, timer |-> timer, event |-> event, hash0 |-> h, view0 |-> view,
     pushed |-> FALSE]

NoTask == Task("none", NoTimer, NoEvent, "", "")

Other == Task("other", NoTimer, NoEvent, "", "")

\* The latest request: its target (lastRequest); and of the latest Grid
\* request: its number (gridId), the slide that was at the centre of the
\* displayed carousel (origin, -1 when there was none), the slide an earlier,
\* still pending Carousel transition was going to (heading, -1 when none was
\* pending), and the index getCurrentCarouselIndex gave (derived).
Hist(lastRequest, gridId, origin, heading, derived) ==
    [lastRequest |-> lastRequest, gridId |-> gridId, origin |-> origin,
     heading |-> heading, derived |-> derived]

NoHist == Hist("none", 0, -1, -1, -1)

\* ---------------------------------------------------------------- Init
\* The page before the script has run: the markup, and the hash the page was
\* opened with.  Slides exist only inside a carousel element, and the
\* carousel and grid only inside the container.
Init ==
    /\ pc = "start"
    /\ container \in BOOLEAN
    /\ carousel \in BOOLEAN
    /\ grid \in BOOLEAN
    /\ closeBtn \in BOOLEAN
    /\ slides \in UNION {[1..n -> BOOLEAN] : n \in 0..MaxSlides}
    /\ (~container) => (~carousel /\ ~grid /\ ~closeBtn)
    /\ (~carousel) => slides = <<>>
    /\ currentView = "carousel"
    /\ totalSlides = 0
    /\ isInitialLoad = TRUE
    /\ listeners = {}
    /\ classList = {}
    /\ carouselAria = "none"
    /\ gridAria = "none"
    /\ gridSizer = FALSE
    /\ gridItems = <<>>
    /\ scrollLeft = 0
    /\ gridScroll = -1
    /\ hash \in Hashes
    /\ hashEvents = 0
    /\ timers = <<>>
    /\ rafs = <<>>
    /\ dispatched = 0
    /\ reqCount = 0
    /\ last = NoTask
    /\ hist = NoHist

\* ------------------------------------------------------------ buildGrid
\* The data-index attributes of the grid items buildGrid appends, for the
\* slides from (0-based) index i on: a slide without an <img> is skipped.
RECURSIVE GridItemsFrom(_)
GridItemsFrom(i) ==
    IF i >= Len(slides) THEN <<>>
    ELSE IF slides[i + 1] THEN <<IntToStr(i)>> \o GridItemsFrom(i + 1)
    ELSE GridItemsFrom(i + 1)

buildGrid ==
    /\ gridSizer' = TRUE
    /\ gridItems' = GridItemsFrom(0)

\* ------------------------------------------------- the initial entries
\* scrollIntoView({inline: 'center'}) on slide i of the carousel.
ScrollToSlide(i) == i * SlideW

showCarouselInitial ==
    /\ currentView' = "carousel"
    /\ classList' = classList \cup {"view-carousel"}
    /\ carouselAria' = "false"
    /\ gridAria' = "true"
    /\ scrollLeft' = ScrollToSlide(0)

showGridInitial ==
    /\ currentView' = "grid"
    /\ classList' = classList \cup {"view-grid"}
    /\ carouselAria' = "true"
    /\ gridAria' = "false"
    /\ UNCHANGED scrollLeft

bindEvents ==
    listeners' = {"hashchange", "grid:click", "keydown"}
                    \cup (IF closeBtn THEN {"close:click"} ELSE {})

\* init without the test of line 30.
init_NoZeroTest(n) ==
    IF ~grid
    THEN /\ pc' = "threw"
         /\ UNCHANGED <<currentView, isInitialLoad, listeners, dom, env>>
    ELSE /\ pc' = "running"
         /\ buildGrid
         /\ IF hash = "#grid" THEN showGridInitial ELSE showCarouselInitial
         /\ rafs' = Append(rafs, "initOuter")
         /\ bindEvents
         /\ UNCHANGED <<isInitialLoad, gridScroll, hash, hashEvents, timers, dispatched, reqCount>>

\* init(), with n the value of totalSlides.  With the grid element missing
\* buildGrid's grid.appendChild is a TypeError on null, thrown before
\* anything has been changed.
init(n) ==
    IF n = 0
    THEN /\ pc' = "inert"
         /\ UNCHANGED <<currentView, isInitialLoad, listeners, dom, env>>
    ELSE IF ~grid
    THEN /\ pc' = "threw"
         /\ UNCHANGED <<currentView, isInitialLoad, listeners, dom, env>>
    ELSE /\ pc' = "running"
         /\ buildGrid
         /\ IF hash = "#grid" THEN showGridInitial ELSE showCarouselInitial
         /\ rafs' = Append(rafs, "initOuter")
         /\ bindEvents
         /\ UNCHANGED <<isInitialLoad, gridScroll, hash, hashEvents, timers, dispatched, reqCount>>

\* The script itself (the IIFE), run once; readyState is the document's.
Script(readyState) ==
    /\ pc = "start"
    /\ last' = Task("init", NoTimer, NoEvent, "", "")
    /\ UNCHANGED <<markup, hist>>
    /\ IF ~container
       THEN /\ pc' = "returned"
            /\ UNCHANGED <<currentView, totalSlides, isInitialLoad, listeners, dom, env>>
       ELSE IF ~carousel
       THEN /\ pc' = "threw"
            /\ UNCHANGED <<currentView, totalSlides, isInitialLoad, listeners, dom, env>>
       ELSE /\ totalSlides' = Len(slides)
            /\ IF readyState = "loading"
               THEN /\ pc' = "waiting"
                    /\ UNCHANGED <<currentView, isInitialLoad, listeners, dom, env>>
               ELSE init(Len(slides))

DOMContentLoaded ==
    /\ pc = "waiting"
    /\ last' = Task("init", NoTimer, NoEvent, "", "")
    /\ init(totalSlides)
    /\ UNCHANGED <<markup, totalSlides, hist>>

\* --------------------------------------------------------- showCarousel
\* Lines 187-188: a non-number becomes 0, then the index is clamped with
\* Math.min and Math.max (which return NaN when an argument is NaN).
ClampIndex_UpToLength(index) ==
    LET i == IF index.type = "number" THEN index ELSE Num(0)
    IN  MathMax(Num(0), MathMin(i, Num(totalSlides)))

ClampIndex(index) ==
    LET i == IF index.type = "number" THEN index ELSE Num(0)
    IN  MathMax(Num(0), MathMin(i, Num(totalSlides - 1)))

\* slides[index] is an element (not undefined).
SlideAt(index) == ~index.nan /\ 0 <= index.v /\ index.v < totalSlides

\* Nothing is pending: no transition timer and no animation-frame callback.
Quiet == timers = <<>> /\ rafs = <<>>

showCarousel_KeepsVisible(index, via) ==
    /\ currentView' = "carousel"
    /\ classList' = classList
    /\ timers' = Append(timers, Timer("carousel", ClampIndex(index), index, via,
                                       reqCount + 1, Quiet))
    /\ reqCount' = reqCount + 1
    /\ hist' = [hist EXCEPT !.lastRequest = "carousel"]

\* The synchronous part of showCarousel(index): the request.
showCarousel(index, via) ==
    /\ currentView' = "carousel"
    /\ classList' = classList \ {"view-visible"}
    /\ timers' = Append(timers, Timer("carousel", ClampIndex(index), index, via,
                                       reqCount + 1, Quiet))
    /\ reqCount' = reqCount + 1
    /\ hist' = [hist EXCEPT !.lastRequest = "carousel"]

CarouselClasses_KeepGrid(classes) == classes \cup {"view-carousel"}

CarouselClasses(classes) == (classes \ {"view-grid"}) \cup {"view-carousel"}

\* Lines 206-213: the carousel's scroll offset once slides[index], if there is
\* such a slide, has been scrolled into view.
TargetScroll_First(index) == ScrollToSlide(0)

TargetScroll(index) ==
    IF SlideAt(index) THEN ScrollToSlide(index.v) ELSE scrollLeft

\* Lines 216-218: pushState(null, '', pathname) when the hash is '#grid'.
CarouselHash_Keep(h) == h

CarouselHash_Clear(h) == ""

CarouselPush(h) == h = "#grid"

CarouselHash(h) == IF CarouselPush(h) THEN "" ELSE h

\* The setTimeout callback of showCarousel, t being the pending timer.
showCarouselTimeout(t) ==
    /\ classList' = CarouselClasses(classList)
    /\ carouselAria' = "false"
    /\ gridAria' = "true"
    /\ scrollLeft' = TargetScroll(t.index)
    /\ hash' = CarouselHash(hash)
    /\ rafs' = Append(rafs, "reveal")
    /\ dispatched' = dispatched + 1
    /\ last' = [Task("timeout", t, ViewChange("carousel", t.index, classList', hash'),
                     hash, "") EXCEPT !.pushed = CarouselPush(hash)]
    /\ UNCHANGED gridScroll

\* ------------------------------------------------ getCurrentCarouselIndex
\* Bounding boxes in viewport coordinates: the carousel starts at 0 and is
\* one slide wide, slide i starts at i * SlideW - scrollLeft.
CenterX == 0 + SlideW \div 2

SlideLeft(i) == i * SlideW - scrollLeft

SlideRight(i) == SlideLeft(i) + SlideW

HitTestFrom_First(i) == 0

RECURSIVE HitTestFrom(_)
HitTestFrom(i) ==
    IF i >= totalSlides THEN 0
    ELSE IF SlideLeft(i) <= CenterX /\ SlideRight(i) >= CenterX THEN i
    ELSE HitTestFrom(i + 1)

getCurrentCarouselIndex == HitTestFrom(0)

\* ------------------------------------------------------------- showGrid
\* The slide exactly at the centre of the carousel, -1 when the carousel is
\* not the displayed container or is scrolled between two slides.
CentredSlide ==
    IF "view-carousel" \in classList /\ carouselAria = "false"
       /\ \E i \in 0..(totalSlides - 1) : scrollLeft = ScrollToSlide(i)
    THEN CHOOSE i \in 0..(totalSlides - 1) : scrollLeft = ScrollToSlide(i)
    ELSE -1

\* The slide the latest pending Carousel transition is going to, -1 when no
\* Carousel transition (to a slide) is pending.
RECURSIVE HeadingOf(_)
HeadingOf(q) ==
    IF q = <<>> THEN -1
    ELSE LET t == q[Len(q)]
         IN  IF t.kind = "carousel" /\ SlideAt(t.index) THEN t.index.v
             ELSE HeadingOf(SubSeq(q, 1, Len(q) - 1))

\* What hist records of a Grid request made now.
GridTrip ==
    Hist("grid", reqCount + 1, CentredSlide, HeadingOf(timers), getCurrentCarouselIndex)

showGrid_CancelsPending(via) ==
    /\ currentView' = "grid"
    /\ classList' = classList \ {"view-visible"}
    /\ timers' = <<Timer("grid", Num(getCurrentCarouselIndex), Undefined, via,
                          reqCount + 1, Quiet)>>
    /\ reqCount' = reqCount + 1
    /\ hist' = GridTrip

showGrid_KeepsView(via) ==
    /\ classList' = classList \ {"view-visible"}
    /\ timers' = Append(timers, Timer("grid", Num(getCurrentCarouselIndex), Undefined, via,
                                       reqCount + 1, Quiet))
    /\ reqCount' = reqCount + 1
    /\ hist' = GridTrip
    /\ UNCHANGED currentView

showGrid(via) ==
    /\ currentView' = "grid"
    /\ classList' = classList \ {"view-visible"}
    /\ timers' = Append(timers, Timer("grid", Num(getCurrentCarouselIndex), Undefined, via,
                                       reqCount + 1, Quiet))
    /\ reqCount' = reqCount + 1
    /\ hist' = GridTrip

GridClasses(classes) == (classes \ {"view-carousel"}) \cup {"view-grid"}

\* Lines 271-273: pushState(null, '', pathname + '#grid') unless it is the hash.
GridHash_Keep(h) == h

GridPush_Always(h) == TRUE

GridPush(h) == h # "#grid"

GridHash(h) == IF GridPush(h) THEN "#grid" ELSE h

showGridTimeout_AriaGridOnly(t) ==
    /\ classList' = GridClasses(classList)
    /\ gridAria' = "false"
    /\ hash' = GridHash(hash)
    /\ gridScroll' = IF t.index.v < Len(gridItems) THEN t.index.v ELSE gridScroll
    /\ rafs' = Append(rafs, "reveal")
    /\ dispatched' = dispatched + 1
    /\ last' = [Task("timeout", t, ViewChange("grid", Undefined, classList', hash'),
                     hash, "") EXCEPT !.pushed = GridPush(hash)]
    /\ UNCHANGED <<scrollLeft, carouselAria>>

\* The setTimeout callback of showGrid; t.index is the closure's currentIndex.
showGridTimeout(t) ==
    /\ classList' = GridClasses(classList)
    /\ carouselAria' = "true"
    /\ gridAria' = "false"
    /\ hash' = GridHash(hash)
    /\ gridScroll' = IF t.index.v < Len(gridItems) THEN t.index.v ELSE gridScroll
    /\ rafs' = Append(rafs, "reveal")
    /\ dispatched' = dispatched + 1
    /\ last' = [Task("timeout", t, ViewChange("grid", Undefined, classList', hash'),
                     hash, "") EXCEPT !.pushed = GridPush(hash)]
    /\ UNCHANGED scrollLeft

\* --------------------------------------------------- the browser's tasks
\* All transitions use the same delay, so their callbacks run in the order
\* in which the timers were set.
Timeout ==
    /\ timers # <<>>
    /\ LET t == Head(timers)
       IN  IF t.kind = "carousel" THEN showCarouselTimeout(t) ELSE showGridTimeout(t)
    /\ timers' = Tail(timers)
    /\ UNCHANGED <<markup, script, gridSizer, gridItems, hashEvents, reqCount, hist>>

InSeq(x, q) == \E k \in 1..Len(q) : q[k] = x

\* One animation frame: every callback queued before the frame runs; init's
\* outer callback queues the inner one for the next frame.
AnimationFrame ==
    /\ rafs # <<>>
    /\ classList' = IF InSeq("initInner", rafs) \/ InSeq("reveal", rafs)
                    THEN classList \cup {"view-visible"} ELSE classList
    /\ isInitialLoad' = IF InSeq("initInner", rafs) THEN FALSE ELSE isInitialLoad
    /\ rafs' = IF InSeq("initOuter", rafs) THEN <<"initInner">> ELSE <<>>
    /\ last' = Other
    /\ UNCHANGED <<markup, pc, currentView, totalSlides, listeners, carouselAria, gridAria,
                   gridSizer, gridItems, scrollLeft, gridScroll, hash, hashEvents, timers,
                   dispatched, reqCount, hist>>

\* The user navigates (address bar, link, back/forward) to another fragment:
\* the hash changes and the browser queues a hashchange event.
Navigate(h) ==
    /\ h # hash
    /\ hashEvents < MaxHashEvents
    /\ hash' = h
    /\ hashEvents' = hashEvents + 1
    /\ last' = Other
    /\ UNCHANGED <<markup, script, dom, timers, rafs, dispatched, reqCount, hist>>

\* The user scrolls the carousel, while it is the displayed view, to offset x.
Scroll(x) ==
    /\ pc = "running"
    /\ "view-carousel" \in classList
    /\ x # scrollLeft
    /\ scrollLeft' = x
    /\ last' = Other
    /\ UNCHANGED <<markup, script, classList, carouselAria, gridAria, gridSizer, gridItems,
                   gridScroll, env, hist>>

\* ---------------------------------------------------------- the handlers
NewTimer == IF timers' = timers THEN NoTimer ELSE timers'[Len(timers')]

NoRequest == UNCHANGED <<currentView, classList, timers, reqCount, hist>>

handleHashChange_NoLatch ==
    IF hash = "#grid" THEN showGrid("hashchange")
    ELSE showCarousel(Num(0), "hashchange")

handleHashChange_AlwaysCarousel ==
    IF isInitialLoad THEN NoRequest
    ELSE showCarousel(Num(0), "hashchange")

handleHashChange ==
    IF isInitialLoad THEN NoRequest
    ELSE IF hash = "#grid" THEN showGrid("hashchange")
    ELSE showCarousel(Num(0), "hashchange")

\* Delivery of a queued hashchange event (to nobody before bindEvents).
HashChange ==
    /\ hashEvents > 0
    /\ hashEvents' = hashEvents - 1
    /\ IF "hashchange" \in listeners THEN handleHashChange ELSE NoRequest
    /\ reqCount' <= MaxRequests
    /\ last' = Task("hashchange", NewTimer, NoEvent, hash, currentView)
    /\ UNCHANGED <<markup, pc, totalSlides, isInitialLoad, listeners, carouselAria, gridAria,
                   gridSizer, gridItems, scrollLeft, gridScroll, hash, rafs, dispatched>>

handleCloseClick == showGrid("input")

CloseClick ==
    /\ "close:click" \in listeners
    /\ handleCloseClick
    /\ reqCount' <= MaxRequests
    /\ last' = Task("input", NewTimer, NoEvent, "", "")
    /\ UNCHANGED <<markup, pc, totalSlides, isInitialLoad, listeners, carouselAria, gridAria,
                   gridSizer, gridItems, scrollLeft, gridScroll, hash, hashEvents, rafs, dispatched>>

\* An event target: whether it is (inside) a .portfolio-grid-item, and that
\* item's data-index attribute.
Target(item, attr) == [item |-> item, attr |-> attr]

\* The targets a click or key press can have: the grid items buildGrid made,
\* elements of the page that are no grid item, and elements carrying the
\* class that buildGrid did not make (no data-index, or one it did not set).
Targets ==
    {Target(TRUE, gridItems[k]) : k \in 1..Len(gridItems)}
        \cup {Target(FALSE, NullAttr)}
        \cup {Target(TRUE, a) : a \in {NullAttr, <<"-", "1">>, IntToStr(totalSlides)}}

handleGridClick(e) ==
    IF ~e.item THEN NoRequest
    ELSE showCarousel(ParseInt(e.attr), "input")

GridClick(e) ==
    /\ "grid:click" \in listeners
    /\ handleGridClick(e)
    /\ reqCount' <= MaxRequests
    /\ last' = Task("input", NewTimer, NoEvent, "", "")
    /\ UNCHANGED <<markup, pc, totalSlides, isInitialLoad, listeners, carouselAria, gridAria,
                   gridSizer, gridItems, scrollLeft, gridScroll, hash, hashEvents, rafs, dispatched>>

Keys == {"Escape", "Enter", " ", "a"}

handleKeydown(key, e) ==
    IF key = "Escape" /\ currentView = "carousel" THEN showGrid("input")
    ELSE IF key \in {"Enter", " "} /\ e.item THEN showCarousel(ParseInt(e.attr), "input")
    ELSE NoRequest

Keydown(key, e) ==
    /\ "keydown" \in listeners
    /\ handleKeydown(key, e)
    /\ reqCount' <= MaxRequests
    /\ last' = Task("input", NewTimer, NoEvent, "", "")
    /\ UNCHANGED <<markup, pc, totalSlides, isInitialLoad, listeners, carouselAria, gridAria,
                   gridSizer, gridItems, scrollLeft, gridScroll, hash, hashEvents, rafs, dispatched>>

\* ------------------------------------------------------ the specification
Next ==
    \/ \E readyState \in {"loading", "interactive"} : Script(readyState)
    \/ DOMContentLoaded
    \/ Timeout
    \/ AnimationFrame
    \/ \E h \in Hashes : Navigate(h)
    \/ \E x \in 0..((totalSlides - 1) * SlideW) : Scroll(x)
    \/ HashChange
    \/ CloseClick
    \/ \E e \in Targets : GridClick(e)
    \/ \E key \in Keys, e \in Targets : Keydown(key, e)

Spec == Init /\ [][Next]_vars

\* A timer that is due fires: the event loop does not starve the timer task
\* source.
FairSpec == Spec /\ WF_vars(Timeout)

\* ------------------------------------------------------------ the claims
\* init has run to its end (at least one slide, every element present).
Running == pc = "running"

CarouselActive ==
    "view-carousel" \in classList /\ carouselAria = "false" /\ gridAria = "true"

GridActive ==
    "view-grid" \in classList /\ gridAria = "false" /\ carouselAria = "true"

\* currentView names the container that is shown.
ViewAgreesWithDom ==
    /\ currentView = "carousel" <=> ("view-carousel" \in classList /\ carouselAria = "false")
    /\ currentView = "grid" <=> ("view-grid" \in classList /\ gridAria = "false")

\* The target of the latest request still pending, "none" when none is.
LatestPending == IF timers = <<>> THEN "none" ELSE timers[Len(timers)].kind

TimeoutOf(kind) == last.act = "timeout" /\ last.timer.kind = kind

\* C1: once init has run with at least one slide, exactly one of the carousel
\* and the grid has aria-hidden 'false' and the other has 'true', in every
\* state, also while transition timers are pending.
C1_AriaComplementary ==
    Running =>
        \/ carouselAria = "false" /\ gridAria = "true"
        \/ carouselAria = "true" /\ gridAria = "false"

\* A grid callback has swapped the containers while a later, overlapping
\* request is still pending.
C1_Witness ==
    Running /\ TimeoutOf("grid") /\ timers # <<>> /\ gridAria = "false"

\* C2 as stated: currentView agrees with the DOM in every state after init,
\* also between a request and the firing of its timer.
C2_Original == Running => ViewAgreesWithDom

\* C2, amended: currentView agrees with the DOM in every state after init in
\* which no transition timer is pending.
C2_AgreesWhenNoTimerPending ==
    (Running /\ timers = <<>>) => ViewAgreesWithDom

\* Two transitions have completed, the second one into the grid.
C2_Witness ==
    Running /\ timers = <<>> /\ dispatched = 2 /\ currentView = "grid" /\ GridActive

\* C3: right after the timer callback of any transition, the hash is '#grid'
\* exactly when the grid is the active container.
C3_HashMatchesView ==
    last.act = "timeout" =>
        /\ hash = "#grid" <=> GridActive
        /\ hash # "#grid" <=> CarouselActive

\* A carousel callback has run from the hash '#grid' while another transition
\* is still pending.
C3_Witness ==
    TimeoutOf("carousel") /\ last.hash0 = "#grid" /\ timers # <<>> /\ hash = ""

\* C4 as stated: once the timer callback of a Grid request has run,
\* currentView is 'grid', the hash is '#grid', the grid's aria-hidden is
\* 'false' and the carousel's 'true', whatever was requested during its window.
C4_Original ==
    TimeoutOf("grid") =>
        /\ currentView = "grid"
        /\ hash = "#grid"
        /\ gridAria = "false"
        /\ carouselAria = "true"

\* C4, amended: once the timer callback of a Grid request has run, the hash is
\* '#grid', the grid's aria-hidden is 'false' and the carousel's 'true';
\* currentView is 'grid' unless the latest request made during the window
\* (and so still pending) is a Carousel request.
C4_GridRequestShowsGrid ==
    TimeoutOf("grid") =>
        /\ hash = "#grid"
        /\ gridAria = "false"
        /\ carouselAria = "true"
        /\ currentView = "grid" <=> LatestPending # "carousel"

\* The callback of a Grid request has run, started from another hash, with a
\* Carousel request made during its window still pending.
C4_Witness ==
    /\ TimeoutOf("grid")
    /\ last.hash0 # "#grid"
    /\ LatestPending = "carousel"
    /\ currentView = "carousel"

\* C5 as stated: once the timer callback of a Carousel request at a valid
\* index i has run, currentView is 'carousel', slide i is the one at the
\* centre of the carousel, and the hash is not '#grid'.
C5_Original ==
    (TimeoutOf("carousel") /\ SlideAt(last.timer.raw)) =>
        /\ currentView = "carousel"
        /\ scrollLeft = ScrollToSlide(last.timer.raw.v)
        /\ getCurrentCarouselIndex = last.timer.raw.v
        /\ hash # "#grid"

\* C5, amended: once the timer callback of a Carousel request at a valid index
\* i has run, slide i is the one at the centre of the carousel, the carousel
\* is the active container and the hash is not '#grid'; currentView is
\* 'carousel' unless the latest request made during the window is a Grid
\* request.
C5_CarouselRequestShowsSlide ==
    (TimeoutOf("carousel") /\ SlideAt(last.timer.raw)) =>
        /\ scrollLeft = ScrollToSlide(last.timer.raw.v)
        /\ getCurrentCarouselIndex = last.timer.raw.v
        /\ CarouselActive
        /\ hash # "#grid"
        /\ currentView = "carousel" <=> LatestPending # "grid"

\* The callback of a Carousel request at the last slide has run, from the hash
\* '#grid', with a Grid request made during its window still pending.
C5_Witness ==
    /\ TimeoutOf("carousel")
    /\ totalSlides > 1
    /\ last.timer.raw = Num(totalSlides - 1)
    /\ last.hash0 = "#grid"
    /\ LatestPending = "grid"
    /\ currentView = "grid"

\* min(max(k, 0), N - 1), stated without Math.min and Math.max.
Clamped(k) ==
    IF k < 0 THEN 0 ELSE IF k > totalSlides - 1 THEN totalSlides - 1 ELSE k

\* C6: for every integer k, showCarousel(k) positions the carousel on slide
\* min(max(k, 0), N - 1) and its notification carries that same index.
C6_IndexIsClamped ==
    (TimeoutOf("carousel") /\ ~last.timer.raw.nan) =>
        /\ scrollLeft = ScrollToSlide(Clamped(last.timer.raw.v))
        /\ getCurrentCarouselIndex = Clamped(last.timer.raw.v)
        /\ last.event.index = Num(Clamped(last.timer.raw.v))

\* The callback of showCarousel(N), with N > 1, has positioned the carousel on
\* slide N - 1.
C6_Witness ==
    /\ TimeoutOf("carousel")
    /\ totalSlides > 1
    /\ last.timer.raw = Num(totalSlides)
    /\ scrollLeft = ScrollToSlide(totalSlides - 1)
    /\ last.event.index = Num(totalSlides - 1)

\* C7 as stated: when the data-index of the activated item is not numeric
\* (parseInt gives NaN), the Carousel request positions the carousel on slide
\* 0 and its notification carries index 0.
C7_Original ==
    (TimeoutOf("carousel") /\ last.timer.raw.nan) =>
        /\ last.timer.index = Num(0)
        /\ scrollLeft = ScrollToSlide(0)
        /\ last.event.index = Num(0)

\* C8 as stated: once a transition into Carousel has completed, the URL has
\* no fragment, whatever the hash was.
C8_Original == TimeoutOf("carousel") => hash = ""

\* C8, amended: once a transition into Carousel has completed, a hash that was
\* '#grid' has become empty and any other hash is what it was.
C8_OnlyGridHashIsCleared ==
    TimeoutOf("carousel") =>
        hash = (IF last.hash0 = "#grid" THEN "" ELSE last.hash0)

\* A transition into Carousel has completed with another fragment in the URL.
C8_Witness ==
    TimeoutOf("carousel") /\ last.hash0 = "#other" /\ hash = "#other"

\* The notification of the task that ran last tells of a completed swap into
\* the view it names: dispatched with that view's class set, the other's
\* removed, and the hash brought in line.
ToldAfterSwap ==
    /\ last.event.view = last.timer.kind
    /\ last.event.seenClasses \cap {"view-carousel", "view-grid"} = {"view-" \o last.timer.kind}
    /\ last.event.seenHash = "#grid" <=> last.timer.kind = "grid"
    /\ last.event.seenHash = hash

\* C9 as stated: every requested transition emits exactly one notification,
\* after its container swap and hash update, carrying view 'carousel' with the
\* target index (the slide the carousel is positioned on) or view 'grid' with
\* no index; init emits none.
C9_Original ==
    /\ dispatched + Len(timers) = reqCount
    /\ last.act = "init" => dispatched = 0
    /\ last.act # "timeout" => last.event = NoEvent
    /\ last.act = "timeout" => ToldAfterSwap
    /\ TimeoutOf("grid") => last.event.index = Undefined
    /\ TimeoutOf("carousel") =>
        /\ SlideAt(last.event.index)
        /\ scrollLeft = ScrollToSlide(last.event.index.v)

\* C9 for the requests whose index is a number other than NaN: what the
\* statement above says holds of them.
C9_HoldsForNumericIndex ==
    /\ dispatched + Len(timers) = reqCount
    /\ last.act = "init" => dispatched = 0
    /\ last.act # "timeout" => last.event = NoEvent
    /\ last.act = "timeout" => ToldAfterSwap
    /\ TimeoutOf("grid") => last.event.index = Undefined
    /\ (TimeoutOf("carousel") /\ ~last.timer.raw.nan) =>
        /\ SlideAt(last.event.index)
        /\ scrollLeft = ScrollToSlide(last.event.index.v)

\* C10: a hashchange delivered after the initial load with the hash '#grid'
\* requests Grid, and with any other hash requests Carousel at index 0; the
\* callback of a hash-driven Grid request makes the grid the active container
\* and, no other request having been made meanwhile, leaves currentView 'grid'.
C10_HashDrivenNavigation ==
    /\ (last.act = "hashchange" /\ "hashchange" \in listeners /\ ~isInitialLoad) =>
        /\ timers # <<>> /\ last.timer = timers[Len(timers)]
        /\ last.timer.via = "hashchange"
        /\ IF last.hash0 = "#grid"
           THEN last.timer.kind = "grid" /\ currentView = "grid"
           ELSE /\ last.timer.kind = "carousel" /\ currentView = "carousel"
                /\ last.timer.raw = Num(0) /\ last.timer.index = Num(0)
    /\ (TimeoutOf("grid") /\ last.timer.via = "hashchange") =>
        /\ GridActive
        /\ timers = <<>> => currentView = "grid"
    /\ (TimeoutOf("carousel") /\ last.timer.via = "hashchange") =>
        /\ CarouselActive
        /\ scrollLeft = ScrollToSlide(0)

\* The page showed the carousel, the initial load was over, and a hashchange
\* with the hash '#grid' has just been handled.
C10_Witness ==
    /\ last.act = "hashchange"
    /\ last.view0 = "carousel"
    /\ last.hash0 = "#grid"
    /\ ~isInitialLoad
    /\ CarouselActive
    /\ currentView = "grid"
    /\ last.timer.kind = "grid"

\* The script has ended its run, init included (if it got that far).
Loaded == pc \notin {"start", "waiting"}

\* Nothing of the page has been changed, nothing is scheduled and no listener
\* is bound.
Untouched ==
    /\ listeners = {}
    /\ classList = {}
    /\ carouselAria = "none" /\ gridAria = "none"
    /\ ~gridSizer /\ gridItems = <<>>
    /\ scrollLeft = 0 /\ gridScroll = -1
    /\ rafs = <<>> /\ timers = <<>>
    /\ reqCount = 0 /\ dispatched = 0

\* C11 as stated: with the container present but the carousel element or the
\* grid element missing, the script throws no exception, binds no listener
\* and changes nothing of the DOM.
C11_Original ==
    (Loaded /\ container /\ (~carousel \/ ~grid)) =>
        /\ pc # "threw"
        /\ Untouched

\* C12: with zero slides init is a no-op: nothing of the DOM is changed, no
\* animation frame is requested, no listener is bound, and no later event
\* changes that.
C12_ZeroSlidesNoOp ==
    (Loaded /\ container /\ carousel /\ Len(slides) = 0) =>
        /\ pc = "inert"
        /\ Untouched
        /\ isInitialLoad /\ currentView = "carousel"

\* init has returned for a page without slides, and a hashchange to '#grid'
\* has been delivered since.
C12_Witness ==
    /\ pc = "inert"
    /\ totalSlides = 0
    /\ last.act = "hashchange"
    /\ hash = "#grid"

\* ------------------------------------------------------------------ C13
\* A Carousel transition at the index the latest Grid request derived,
\* requested after that Grid request, has run its callback.
RoundTrip ==
    /\ Running
    /\ TimeoutOf("carousel")
    /\ hist.gridId > 0
    /\ last.timer.id > hist.gridId
    /\ last.timer.raw = Num(hist.derived)

\* The slide the carousel was positioned on when Grid was requested; for a
\* request made inside the 300ms window of a Carousel transition, the slide
\* that transition goes to.
StartSlide == IF hist.heading >= 0 THEN hist.heading ELSE hist.origin

\* C13 as stated: the round trip Carousel on slide i, Grid, Carousel at the
\* index Grid derived ends on slide i, also when Grid is requested while a
\* Carousel transition to i is still inside its 300ms window: the index Grid
\* derives is i, and the transition back positions the carousel on i.
C13_Original ==
    (Running /\ hist.gridId > 0 /\ StartSlide >= 0) =>
        /\ hist.derived = StartSlide
        /\ RoundTrip => scrollLeft = ScrollToSlide(StartSlide)

\* C13, amended: the round trip ends on the slide that is at the centre of
\* the displayed carousel when Grid is requested: Grid derives that slide's
\* index, and the transition back positions the carousel on it.
C13_RoundTripFromCentredSlide ==
    (Running /\ hist.gridId > 0 /\ hist.origin >= 0) =>
        /\ hist.derived = hist.origin
        /\ RoundTrip => scrollLeft = ScrollToSlide(hist.origin)

\* A round trip from the second slide has ended on the second slide.
C13_Witness ==
    /\ RoundTrip
    /\ hist.origin = 1
    /\ scrollLeft = ScrollToSlide(1)

\* ------------------------------------------------------------------ C14
\* This step is a timer callback that changes the view class.
SwapStep ==
    /\ timers # <<>>
    /\ timers' = Tail(timers)
    /\ classList' # classList

CarouselToCarousel ==
    /\ Running
    /\ currentView = "carousel" /\ CarouselActive /\ Quiet
    /\ reqCount' = reqCount + 1
    /\ hist'.lastRequest = "carousel"

\* C15 as stated: a Carousel request made while already in Carousel is
\* handled on a cheap path: it does not remove 'view-visible' from the
\* container and sets no 300ms timer.
C15_Original ==
    [][CarouselToCarousel =>
          /\ timers' = timers
          /\ "view-visible" \in classList => "view-visible" \in classList']_vars

\* ------------------------------------------------------------------ C16
\* The grid item last scrolled into view carries data-index i.
GridItemShown(i) ==
    /\ gridScroll >= 0
    /\ gridScroll < Len(gridItems)
    /\ ParseInt(gridItems[gridScroll + 1]) = Num(i)

\* C16 as stated: for every slide list, slides without an image included,
\* there is one grid item per slide and the k-th grid item carries
\* data-index k; and the callback of a Grid request made with the carousel
\* on slide i scrolls into view the grid item whose data-index is i.
C16_Original ==
    Running =>
        /\ Len(gridItems) = totalSlides
        /\ \A k \in 0..(Len(gridItems) - 1) : ParseInt(gridItems[k + 1]) = Num(k)
        /\ TimeoutOf("grid") => GridItemShown(last.timer.index.v)

\* ------------------------------------------------------------------ C17
\* The hash the callback of timer t leaves when it has to change it.
TargetHash(t) == IF t.kind = "grid" THEN "#grid" ELSE ""

\* C17: a timer callback calls history.pushState only when that changes
\* location.hash: the Grid callback exactly when the hash is not '#grid',
\* the Carousel callback exactly when it is '#grid'. A callback that finds
\* its target hash in place pushes nothing and leaves the hash alone, so
\* the entry a callback creates never has the hash of the entry it is
\* pushed on top of.
C17_PushChangesHash ==
    (Running /\ last.act = "timeout") =>
        /\ last.pushed => hash # last.hash0
        /\ ~last.pushed => hash = last.hash0
        /\ last.hash0 = TargetHash(last.timer) => ~last.pushed
        /\ last.timer.kind = "grid" => (last.pushed <=> last.hash0 # "#grid")
        /\ last.timer.kind = "carousel" => (last.pushed <=> last.hash0 = "#grid")

\* The callback of a Grid request made by a hashchange to '#grid' has run:
\* the hash was in place and nothing was pushed.
C17_Witness ==
    /\ Running
    /\ TimeoutOf("grid")
    /\ last.timer.via = "hashchange"
    /\ last.hash0 = "#grid"
    /\ ~last.pushed
    /\ hash = "#grid"

\* ------------------------------------------------------------------ C18
\* This step delivers a hashchange event while the latch is set, the
\* listener bound.
HashChangeWhileLoading ==
    /\ hashEvents' = hashEvents - 1
    /\ "hashchange" \in listeners
    /\ isInitialLoad

\* The latch changes only from set to cleared, and the step that clears it
\* adds 'view-visible'.
LatchClearedWithReveal ==
    isInitialLoad' # isInitialLoad =>
        /\ isInitialLoad /\ ~isInitialLoad'
        /\ "view-visible" \in classList'

\* This step adds 'view-visible' to the container.
AddsVisible == "view-visible" \notin classList /\ "view-visible" \in classList'

\* C18 as stated: a hashchange event arriving while isInitialLoad is set
\* triggers no transition and changes no state; the latch is cleared exactly
\* once, in the step that adds 'view-visible' for the first time (no step
\* adds the marker and leaves the latch set), and is never set again.
C18_Original ==
    [][/\ HashChangeWhileLoading =>
              UNCHANGED <<script, dom, hash, timers, rafs, dispatched, reqCount>>
       /\ LatchClearedWithReveal
       /\ (AddsVisible /\ isInitialLoad) => ~isInitialLoad']_vars

\* C18, amended: a hashchange event arriving while isInitialLoad is set
\* triggers no transition and changes no state; the latch is cleared only
\* by init's second animation-frame callback, in the step in which that
\* callback adds 'view-visible', and is never set again.
C18_LatchGuardsInitialLoad ==
    [][/\ HashChangeWhileLoading =>
              UNCHANGED <<script, dom, hash, timers, rafs, dispatched, reqCount>>
       /\ LatchClearedWithReveal
       /\ isInitialLoad' # isInitialLoad => InSeq("initInner", rafs)]_vars

\* A hashchange to '#grid' has been delivered to the bound listener before
\* init's second frame: the latch is set and the Carousel view is unchanged.
C18_Witness ==
    /\ Running
    /\ last.act = "hashchange"
    /\ "hashchange" \in listeners
    /\ isInitialLoad
    /\ hash = "#grid"
    /\ currentView = "carousel"
    /\ timers = <<>>

\* ------------------------------------------------------------------ C19
\* This step leaves the pending timers alone, adds one at the end, or runs
\* the oldest.
QueueStep ==
    \/ timers' = timers
    \/ Len(timers') = Len(timers) + 1 /\ SubSeq(timers', 1, Len(timers)) = timers
    \/ timers # <<>> /\ timers' = Tail(timers)

\* The pending timers are those of the requests whose callback has not run,
\* oldest first; the callback that ran last is the one of the latest request
\* served.
InRequestOrder ==
    /\ Len(timers) = reqCount - dispatched
    /\ \A k \in 1..Len(timers) : timers[k].id = dispatched + k
    /\ last.act = "timeout" => last.timer.id = dispatched

\* C19: no event cancels a scheduled timer; the callbacks run once each, in
\* the order of the requests; and, timers being scheduled fairly, the
\* callback of every request made eventually runs.
C19_NoCancellation ==
    /\ [][QueueStep]_vars
    /\ []InRequestOrder
    /\ \A id \in 1..MaxRequests : (reqCount >= id) ~> (dispatched >= id)

\* The callback of a Grid request made while a Carousel transition was
\* pending has run, second, after that transition's callback.
C19_Witness ==
    /\ Running
    /\ TimeoutOf("grid")
    /\ hist.heading >= 0
    /\ last.timer.id = 2
    /\ dispatched = 2

\* ------------------------------------------------------------------ C20
\* The view the container's classes and the aria-hidden attributes show.
ShownView ==
    IF CarouselActive /\ "view-grid" \notin classList THEN "carousel"
    ELSE IF GridActive /\ "view-carousel" \notin classList THEN "grid"
    ELSE "none"

\* C20: after init, whenever no transition timer and no animation-frame
\* callback is pending, the container carries 'view-visible' and exactly
\* one of view-carousel / view-grid, that class and the container with
\* aria-hidden='false' match currentView, and currentView is the target of
\* the most recent request, if any request was made.
C20_QuiescentConsistency ==
    (Running /\ Quiet) =>
        /\ "view-visible" \in classList
        /\ ShownView = currentView
        /\ hist.lastRequest # "none" => currentView = hist.lastRequest

\* Two overlapping requests, a Carousel request and a Grid request made
\* inside its window, have been served and revealed: the Grid view is shown.
C20_Witness ==
    /\ Running
    /\ Quiet
    /\ reqCount = 2 /\ dispatched = 2
    /\ hist.heading >= 0
    /\ hist.lastRequest = "grid"
    /\ ShownView = "grid"
    /\ "view-visible" \in classList
====
